---- MODULE Spec2Model ----
(***************************************************************************)
(* Model of skills/experimental/aws-agentcore/scripts/search_docs.py:      *)
(* the IndexSearch inverted index (add, search) and make_snippet.          *)
(*                                                                         *)
(* A Python str is a sequence of one-character strings.  A float score is  *)
(* a fixed-point integer with Scale units per 1.0.                         *)
(***************************************************************************)
EXTENDS Integers, Sequences, FiniteSets, TLC

\* ------------------------------------------------------------------ bounds

\* Largest number of documents added to one index.
MaxDocs == 2

\* Largest k passed to search.
MaxK == 2

\* Largest max_chars passed to make_snippet.
MaxChars == 10

\* Largest number of links of the link list of search_agentcore_docs.
MaxLinks == 7

\* Longest text passed to the tokenizer on its own.
MaxLen == 3

\* Fixed-point units per 1.0 of a float score.
Scale == 10 ^ 4

\* ------------------------------------------------------------- characters

NL == "\n"

\* The backtick character.  The module's string syntax has no backtick, so
\* the tilde stands for it; like the backtick it is neither a word character
\* nor whitespace and has no other role in the patterns.
Backtick == "~"

\* The three backticks of a code fence.
Fence == <<Backtick, Backtick, Backtick>>

UpperSeq ==
    << "A", "B", "C", "D", "E", "F", "G", "H", "I", "J", "K", "L", "M",
       "N", "O", "P", "Q", "R", "S", "T", "U", "V", "W", "X", "Y", "Z" >>

LowerSeq ==
    << "a", "b", "c", "d", "e", "f", "g", "h", "i", "j", "k", "l", "m",
       "n", "o", "p", "q", "r", "s", "t", "u", "v", "w", "x", "y", "z" >>

UpperChars == {UpperSeq[i] : i \in 1..26}

LowerChars == {LowerSeq[i] : i \in 1..26}

DigitChars == {"0", "1", "2", "3", "4", "5", "6", "7", "8", "9"}

\* str.lower() on one character.
LowerChar(c) ==
    IF c \in UpperChars THEN LowerSeq[CHOOSE i \in 1..26 : UpperSeq[i] = c] ELSE c

\* The character class of _TOKEN (ASCII letters, digits, underscore), which is
\* also the word class of _MD_CODE_BLOCK.
WordChars == UpperChars \cup LowerChars \cup DigitChars \cup {"_"}

IsWordChar(c) == c \in WordChars

\* The whitespace class of the patterns and of str.strip and str.split.
IsSpace(c) == c \in {" ", NL, "\t"}

\* The line boundary of str.splitlines and of re.MULTILINE.
IsNewline(c) == c = NL

\* --------------------------------------------------------- str operations

\* s.lower()
Lower(s) == [i \in 1..Len(s) |-> LowerChar(s[i])]

\* c.upper(), for one character.
UpperChar(c) ==
    IF c \in LowerChars
    THEN UpperSeq[CHOOSE i \in 1..26 : LowerSeq[i] = c]
    ELSE c

\* s.title(): a letter that follows no letter is upper-cased, a letter that
\* follows a letter is lower-cased.
TitleCase(s) ==
    [i \in 1..Len(s) |->
        IF i > 1 /\ s[i - 1] \in UpperChars \cup LowerChars
        THEN LowerChar(s[i]) ELSE UpperChar(s[i])]

\* s.replace(a, b), for characters a and b.
ReplaceChar(s, a, b) == [i \in 1..Len(s) |-> IF s[i] = a THEN b ELSE s[i]]

\* s.startswith(p)
StartsWith(s, p) == Len(p) <= Len(s) /\ SubSeq(s, 1, Len(p)) = p

\* s.startswith(p, i-1): p occurs in s at 1-based position i.
At(s, p, i) == i + Len(p) - 1 <= Len(s) /\ SubSeq(s, i, i + Len(p) - 1) = p

\* The least member of a non-empty set of positions.
Min(S) == CHOOSE x \in S : \A y \in S : x <= y

\* The greatest member of a non-empty set of positions.
Max(S) == CHOOSE x \in S : \A y \in S : y <= x

\* The positions at which p occurs in s, at or after i.
Hits(s, p, i) == {j \in i..Len(s) : At(s, p, j)}

\* Position of the first occurrence of p in s at or after i, 0 when none
\* (s.find(p, i-1) + 1).
Find(s, p, i) == IF Hits(s, p, i) = {} THEN 0 ELSE Min(Hits(s, p, i))

RECURSIVE CountFrom(_, _, _)
\* Occurrences of the non-empty t in s from position i on, non-overlapping,
\* left to right: the scan resumes behind each occurrence.
CountFrom(s, t, i) ==
    LET hit == Find(s, t, i)
    IN  IF hit = 0 THEN 0 ELSE 1 + CountFrom(s, t, hit + Len(t))

\* s.count(t).  When no two occurrences overlap, every occurrence counts.
Count(s, t) ==
    LET hits == Hits(s, t, 1)
    IN  IF \A j \in hits : \A d \in 1..Len(t) - 1 : j + d \notin hits
        THEN Cardinality(hits)
        ELSE CountFrom(s, t, 1)

RECURSIVE Join(_, _)
\* sep.join(parts)
Join(parts, sep) ==
    IF parts = <<>> THEN <<>>
    ELSE IF Len(parts) = 1 THEN parts[1]
    ELSE parts[1] \o sep \o Join(Tail(parts), sep)

\* s.lstrip()
LStrip(s) ==
    LET kept == {j \in 1..Len(s) : ~IsSpace(s[j])}
    IN  IF kept = {} THEN <<>> ELSE SubSeq(s, Min(kept), Len(s))

\* s.rstrip()
RStrip(s) ==
    LET kept == {j \in 1..Len(s) : ~IsSpace(s[j])}
    IN  IF kept = {} THEN <<>> ELSE SubSeq(s, 1, Max(kept))

\* s.strip()
Strip(s) == LStrip(RStrip(s))

\* Length of the run of characters equal to c that starts at position i of s.
RunLen(s, i, c) ==
    LET stops == {j \in i..Len(s) : s[j] # c}
    IN  IF i > Len(s) THEN 0
        ELSE (IF stops = {} THEN Len(s) + 1 ELSE Min(stops)) - i

\* Length of the run of whitespace characters that starts at position i of s.
SpaceRunLen(s, i) ==
    LET stops == {j \in i..Len(s) : ~IsSpace(s[j])}
    IN  IF i > Len(s) THEN 0
        ELSE (IF stops = {} THEN Len(s) + 1 ELSE Min(stops)) - i

\* Length of the run of word characters that starts at position i of s.
WordRunLen(s, i) ==
    LET stops == {j \in i..Len(s) : ~IsWordChar(s[j])}
    IN  IF i > Len(s) THEN 0
        ELSE (IF stops = {} THEN Len(s) + 1 ELSE Min(stops)) - i

\* Last position of the line of s that holds position i.
LineEnd(s, i) ==
    LET stops == {j \in i + 1..Len(s) : IsNewline(s[j])}
    IN  IF stops = {} THEN Len(s) ELSE Min(stops) - 1

RECURSIVE SplitLinesFrom(_, _, _)
\* The lines of s from position i on: a line ends at a line boundary, and a
\* boundary at the very end of s opens no further line.
SplitLinesFrom(s, i, acc) ==
    IF i > Len(s) THEN acc
    ELSE LET e == IF IsNewline(s[i]) THEN i - 1 ELSE LineEnd(s, i)
         IN  SplitLinesFrom(s, e + 2, Append(acc, SubSeq(s, i, e)))

\* s.splitlines()
SplitLines(s) == SplitLinesFrom(s, 1, <<>>)

RECURSIVE SplitWordsFrom(_, _, _)
\* The maximal runs of characters other than whitespace of s, from position
\* i on.
SplitWordsFrom(s, i, acc) ==
    LET starts == {j \in i..Len(s) : ~IsSpace(s[j])}
        b      == Min(starts)
        stops  == {j \in b..Len(s) : IsSpace(s[j])}
        e      == IF stops = {} THEN Len(s) ELSE Min(stops) - 1
    IN  IF starts = {} THEN acc
        ELSE SplitWordsFrom(s, e + 1, Append(acc, SubSeq(s, b, e)))

\* s.split()
SplitWords(s) == SplitWordsFrom(s, 1, <<>>)

\* --------------------------------------------------------- regex patterns

RECURSIVE TokenScan(_, _, _)
\* The matches of _TOKEN in s from position i on.
TokenScan(s, i, acc) ==
    LET starts == {j \in i..Len(s) : IsWordChar(s[j])}
        b      == Min(starts)
        e      == b + WordRunLen(s, b) - 1
    IN  IF starts = {} THEN acc
        ELSE TokenScan(s, e + 1, Append(acc, SubSeq(s, b, e)))

\* TokenFindall with the fault of splitting at whitespace only.
TokenFindall_Words(s) == SplitWords(s)

\* _TOKEN.findall(s): the maximal runs of word characters.
TokenFindall(s) == TokenScan(s, 1, <<>>)

\* Where the group of _MD_HEADER starts when the pattern is tried at position
\* i, 0 when it does not match there: the pattern needs a line start, a whole
\* run of one to six hashes, then the longest run of whitespace (newlines
\* included) that leaves a character other than a newline for the group, which
\* runs to the end of its line.
HeaderGroupStart(s, i) ==
    LET hashes == RunLen(s, i, "#")
        ws     == i + hashes
        spaces == SpaceRunLen(s, ws)
        takes  == {j \in 1..spaces : ws + j <= Len(s) /\ ~IsNewline(s[ws + j])}
    IN  IF s[i] = "#" /\ (i = 1 \/ IsNewline(s[i - 1])) /\ hashes \in 1..6
           /\ takes # {}
        THEN ws + Max(takes)
        ELSE 0

RECURSIVE HeaderScan(_, _, _)
\* The matches of _MD_HEADER in s from position i on.
HeaderScan(s, i, acc) ==
    LET starts == {j \in i..Len(s) : HeaderGroupStart(s, j) # 0}
        g      == HeaderGroupStart(s, Min(starts))
    IN  IF starts = {} THEN acc
        ELSE HeaderScan(s, LineEnd(s, g) + 1,
                        Append(acc, SubSeq(s, g, LineEnd(s, g))))

\* _MD_HEADER.findall(s), under re.MULTILINE.
HeaderFindall(s) == HeaderScan(s, 1, <<>>)

\* Where the group of _MD_CODE_BLOCK starts when the pattern is tried at
\* position i, 0 when the opening fence (three backticks, word characters, a
\* newline) does not match there.
CodeGroupStart(s, i) ==
    LET nl == i + 3 + WordRunLen(s, i + 3)
    IN  IF At(s, Fence, i) /\ nl <= Len(s) /\ s[nl] = NL
        THEN nl + 1 ELSE 0

\* Where the closing fence of the match of _MD_CODE_BLOCK tried at position i
\* starts, 0 when the pattern does not match there: the group runs, lazily, to
\* the next three backticks.
CodeClose(s, i) ==
    IF CodeGroupStart(s, i) = 0 THEN 0 ELSE Find(s, Fence, CodeGroupStart(s, i))

RECURSIVE CodeBlockScan(_, _, _)
\* The matches of _MD_CODE_BLOCK in s from position i on.
CodeBlockScan(s, i, acc) ==
    LET starts == {j \in i..Len(s) : CodeClose(s, j) # 0}
        b      == Min(starts)
    IN  IF starts = {} THEN acc
        ELSE CodeBlockScan(s, CodeClose(s, b) + 3,
                           Append(acc, SubSeq(s, CodeGroupStart(s, b),
                                              CodeClose(s, b) - 1)))

\* _MD_CODE_BLOCK.findall(s).
CodeBlockFindall(s) == CodeBlockScan(s, 1, <<>>)

\* End of the match of _MD_LINK_TEXT tried at position i, 0 when none:
\* an opening bracket, one or more characters other than a closing bracket,
\* the closing bracket, an opening parenthesis, one or more characters other
\* than a closing parenthesis, and the closing parenthesis.
LinkMatchEnd(s, i) ==
    LET rb == Find(s, <<"]">>, i + 1)
        rp == IF rb = 0 THEN 0 ELSE Find(s, <<")">>, rb + 2)
    IN  IF s[i] = "[" /\ rb > i + 1 /\ At(s, <<"(">>, rb + 1) /\ rp > rb + 2
        THEN rp ELSE 0

RECURSIVE LinkTextScan(_, _, _)
\* The matches of _MD_LINK_TEXT in s from position i on.
LinkTextScan(s, i, acc) ==
    LET starts == {j \in i..Len(s) : LinkMatchEnd(s, j) # 0}
        b      == Min(starts)
    IN  IF starts = {} THEN acc
        ELSE LinkTextScan(s, LinkMatchEnd(s, b) + 1,
                          Append(acc, SubSeq(s, b + 1, Find(s, <<"]">>, b + 1) - 1)))

\* _MD_LINK_TEXT.findall(s): the group is the bracketed text.
LinkTextFindall(s) == LinkTextScan(s, 1, <<>>)

\* Where the closing fence of the match of _CODE_FENCE tried at position i
\* starts, 0 when the pattern does not match there.
FenceClose(s, i) == IF At(s, Fence, i) THEN Find(s, Fence, i + 3) ELSE 0

RECURSIVE CodeFenceScan(_, _, _)
\* s from position i on without the matches of _CODE_FENCE.
CodeFenceScan(s, i, acc) ==
    LET starts == {j \in i..Len(s) : FenceClose(s, j) # 0}
        b      == Min(starts)
    IN  IF starts = {} THEN acc \o SubSeq(s, i, Len(s))
        ELSE CodeFenceScan(s, FenceClose(s, b) + 3, acc \o SubSeq(s, i, b - 1))

\* _CODE_FENCE.sub of the empty string on s: each stretch from three backticks
\* to the next three backticks, newlines included, is removed.
CodeFenceSub(s) == CodeFenceScan(s, 1, <<>>)

\* normalize(s): every run of whitespace becomes one space, stripped; equally
\* the join of s.split() with single spaces.
Normalize(s) == Join(SplitWords(s), <<" ">>)

\* The re.match of make_snippet on s: one or more digits, then a period.
IsNumbered(s) ==
    LET digits == {j \in 1..Len(s) : \A h \in 1..j : s[h] \in DigitChars}
    IN  \E j \in digits : j + 1 <= Len(s) /\ s[j + 1] = "."

RECURSIVE SplitOnFrom(_, _, _, _)
\* The parts of s from position i on, between the occurrences of the
\* character c.
SplitOnFrom(s, c, i, acc) ==
    LET stops == {j \in i..Len(s) : s[j] = c}
    IN  IF stops = {} THEN Append(acc, SubSeq(s, i, Len(s)))
        ELSE SplitOnFrom(s, c, Min(stops) + 1,
                         Append(acc, SubSeq(s, i, Min(stops) - 1)))

\* s.split(c), for a character c.
SplitOn(s, c) == SplitOnFrom(s, c, 1, <<>>)

\* The scheme separator of a URL.
SchemeSep == <<":", "/", "/">>

\* The title of a URL with no path.
Documentation ==
    <<"D", "o", "c", "u", "m", "e", "n", "t", "a", "t", "i", "o", "n">>

\* title_from_url(url): the last path part that is no index file, its hyphens
\* and underscores turned into spaces, in title case.
title_from_url(url) ==
    LET sep   == Find(url, SchemeSep, 1)
        path  == IF sep = 0 THEN url ELSE SubSeq(url, sep + 3, Len(url))
        all   == SelectSeq(SplitOn(path, "/"), LAMBDA part : part # <<>>)
        parts == IF all # <<>>
                    /\ StartsWith(all[Len(all)], <<"i", "n", "d", "e", "x", ".">>)
                 THEN SubSeq(all, 1, Len(all) - 1) ELSE all
        slug  == IF parts # <<>> THEN parts[Len(parts)] ELSE path
        clean == Strip(ReplaceChar(ReplaceChar(slug, "-", " "), "_", " "))
    IN  IF TitleCase(clean) # <<>> THEN TitleCase(clean) ELSE Documentation

\* ------------------------------------------------------------ constants

_TITLE_BOOST_EMPTY == 8

_TITLE_BOOST_SHORT == 5

_TITLE_BOOST_LONG == 3

_SHORT_PAGE_THRESHOLD == 800

\* The weights of header, code-block and link-text occurrences.
HeaderWeight == 4

CodeWeight == 2

LinkWeight == 2

\* Number of top results whose pages search_agentcore_docs fetches.
SNIPPET_HYDRATE_MAX == 5

\* The default max_chars of make_snippet.
DefaultMaxChars == 300

\* The paragraph length at which make_snippet stops accumulating lines.
ParagraphChars == 120

\* The marker make_snippet appends to a truncated snippet.
Ellipsis == <<".", ".", ".">>

\* ------------------------------------------------------------------ state

VARIABLES
    docs,           \* IndexSearch.docs: the Doc records, in insertion order
    doc_frequency,  \* IndexSearch.doc_frequency: token -> count
    doc_indices,    \* IndexSearch.doc_indices: token -> list of ordinals
    call,           \* the last call made: its name, arguments and return value
    run,            \* the running search_agentcore_docs: its position and locals
    chat            \* the InteractiveChat session: its fields and its ImageChat's

vars == <<docs, doc_frequency, doc_indices, call, run, chat>>

\* No search_agentcore_docs is running.
Idle == [pc |-> "idle"]

\* dict.get(key, default)
Get(dict, key, default) == IF key \in DOMAIN dict THEN dict[key] ELSE default

\* dict[key] = value
Put(dict, key, value) ==
    [x \in DOMAIN dict \cup {key} |-> IF x = key THEN value ELSE dict[x]]

\* The empty dict.
EmptyDict == [x \in {} |-> 0]

\* ---------------------------------------------------------- IndexSearch.add

\* The haystack add() tokenizes: the lowercased index title, headers, link
\* text, code blocks and content, joined with single spaces.
Haystack(doc) ==
    LET content     == Lower(doc.content)
        title_text  == Lower(doc.index_title)
        headers     == Join(HeaderFindall(doc.content), <<" ">>)
        code_blocks == Join(CodeBlockFindall(doc.content), <<" ">>)
        link_text   == Join(LinkTextFindall(doc.content), <<" ">>)
    IN  Join(<<title_text, Lower(headers), Lower(link_text),
               Lower(code_blocks), content>>, <<" ">>)

\* AddToken with the fault of counting every occurrence: the test on seen is
\* left out.
AddToken_EveryOccurrence(st, tok, idx) ==
    [indices   |-> Put(st.indices, tok, Append(Get(st.indices, tok, <<>>), idx)),
     frequency |-> Put(st.frequency, tok, Get(st.frequency, tok, 0) + 1),
     seen      |-> st.seen \cup {tok}]

\* AddToken with the fault of assigning the postings list instead of appending
\* to it: the entries of the documents added before are lost.
AddToken_Overwrite(st, tok, idx) ==
    [indices   |-> Put(st.indices, tok, <<idx>>),
     frequency |-> IF tok \notin st.seen
                   THEN Put(st.frequency, tok, Get(st.frequency, tok, 0) + 1)
                   ELSE st.frequency,
     seen      |-> st.seen \cup {tok}]

\* AddToken with the fault of one posting per document: the ordinal is
\* appended on the first occurrence of the token only.
AddToken_OncePerDocument(st, tok, idx) ==
    IF tok \in st.seen THEN st
    ELSE [indices   |-> Put(st.indices, tok, Append(Get(st.indices, tok, <<>>), idx)),
          frequency |-> Put(st.frequency, tok, Get(st.frequency, tok, 0) + 1),
          seen      |-> st.seen \cup {tok}]

\* AddToken with the fault of counting known tokens only: the frequency of a
\* token the index does not hold yet is not entered.
AddToken_KnownOnly(st, tok, idx) ==
    [indices   |-> Put(st.indices, tok, Append(Get(st.indices, tok, <<>>), idx)),
     frequency |-> IF tok \notin st.seen /\ tok \in DOMAIN st.frequency
                   THEN Put(st.frequency, tok, st.frequency[tok] + 1)
                   ELSE st.frequency,
     seen      |-> st.seen \cup {tok}]

\* One pass of the loop of add() over the token tok of document idx: st holds
\* doc_indices, doc_frequency and the set seen.
AddToken(st, tok, idx) ==
    [indices   |-> Put(st.indices, tok, Append(Get(st.indices, tok, <<>>), idx)),
     frequency |-> IF tok \notin st.seen
                   THEN Put(st.frequency, tok, Get(st.frequency, tok, 0) + 1)
                   ELSE st.frequency,
     seen      |-> st.seen \cup {tok}]

RECURSIVE AddLoop(_, _, _)
\* The loop of add() over the tokens toks of document idx.
AddLoop(st, toks, idx) ==
    IF toks = <<>> THEN st
    ELSE AddLoop(AddToken(st, Head(toks), idx), Tail(toks), idx)

\* add with the fault of taking the ordinal after the append: the ordinal is
\* one too high.
Add_OrdinalAfterAppend(doc) ==
    /\ Len(docs) < MaxDocs
    /\ LET idx == Len(docs) + 1
           st  == AddLoop([indices |-> doc_indices, frequency |-> doc_frequency,
                           seen |-> {}],
                          TokenFindall(Haystack(doc)), idx)
       IN  /\ docs' = Append(docs, doc)
           /\ doc_indices' = st.indices
           /\ doc_frequency' = st.frequency
           /\ call' = [op |-> "add", doc |-> doc]
    /\ UNCHANGED <<run, chat>>

\* IndexSearch.add(doc): what the method does to the index.
IndexSearch_add(doc) ==
    LET idx == Len(docs)
        st  == AddLoop([indices |-> doc_indices, frequency |-> doc_frequency,
                        seen |-> {}],
                       TokenFindall(Haystack(doc)), idx)
    IN  /\ docs' = Append(docs, doc)
        /\ doc_indices' = st.indices
        /\ doc_frequency' = st.frequency
        /\ call' = [op |-> "add", doc |-> doc]

\* IndexSearch.add(doc), called on an index of fewer than MaxDocs documents.
Add(doc) ==
    /\ Len(docs) < MaxDocs
    /\ IndexSearch_add(doc)
    /\ UNCHANGED <<run, chat>>

\* ------------------------------------------------------- IndexSearch.search

\* seq[:n], for n of either sign.
Slice(seq, n) ==
    IF n >= 0 THEN SubSeq(seq, 1, IF n < Len(seq) THEN n ELSE Len(seq))
    ELSE SubSeq(seq, 1, IF Len(seq) + n > 0 THEN Len(seq) + n ELSE 0)

\* The natural logarithm of 1..10 in fixed point, rounded to the nearest unit.
LnTable == <<0, 6931, 10986, 13863, 16094, 17918, 19459, 20794, 21972, 23026>>

\* math.log(p / q) for integers p >= q >= 1, in fixed point.
Log(p, q) == LnTable[p] - LnTable[q]

\* _title_boost_for with the fault of an inclusive threshold: a body of exactly
\* the short-page length still counts as short.
_title_boost_for_Inclusive(doc) ==
    LET n == Len(doc.content)
    IN  IF n = 0 THEN _TITLE_BOOST_EMPTY
        ELSE IF n <= _SHORT_PAGE_THRESHOLD THEN _TITLE_BOOST_SHORT
        ELSE _TITLE_BOOST_LONG

\* _title_boost_for(doc)
_title_boost_for(doc) ==
    LET n == Len(doc.content)
    IN  IF n = 0 THEN _TITLE_BOOST_EMPTY
        ELSE IF n < _SHORT_PAGE_THRESHOLD THEN _TITLE_BOOST_SHORT
        ELSE _TITLE_BOOST_LONG

RECURSIVE SumCounts(_, _, _)
\* sum(x.lower().count(token) * weight for x in parts)
SumCounts(parts, token, weight) ==
    IF parts = <<>> THEN 0
    ELSE Count(Lower(Head(parts)), token) * weight
         + SumCounts(Tail(parts), token, weight)

\* _calculate_md_score with the fault of counting whole tokens in the body:
\* an occurrence inside a longer token is not counted.
_calculate_md_score_WholeTokens(doc, token) ==
    LET found      == TokenFindall(Lower(doc.content))
        content_tf == Cardinality({j \in 1..Len(found) : found[j] = token})
        title_tf   == Count(Lower(doc.index_title), token) * _title_boost_for(doc)
        header_tf  == SumCounts(HeaderFindall(doc.content), token, HeaderWeight)
        code_tf    == SumCounts(CodeBlockFindall(doc.content), token, CodeWeight)
        link_tf    == SumCounts(LinkTextFindall(doc.content), token, LinkWeight)
    IN  content_tf + title_tf + header_tf + code_tf + link_tf

\* _calculate_md_score with the fault of counting the body only: the
\* occurrences in the index title are left out.
_calculate_md_score_NoTitle(doc, token) ==
    LET content_tf == Count(Lower(doc.content), token)
        header_tf  == SumCounts(HeaderFindall(doc.content), token, HeaderWeight)
        code_tf    == SumCounts(CodeBlockFindall(doc.content), token, CodeWeight)
        link_tf    == SumCounts(LinkTextFindall(doc.content), token, LinkWeight)
    IN  content_tf + header_tf + code_tf + link_tf

\* _calculate_md_score(doc, token): the weighted term frequency, a whole number.
_calculate_md_score(doc, token) ==
    LET content_tf == Count(Lower(doc.content), token)
        title_tf   == Count(Lower(doc.index_title), token) * _title_boost_for(doc)
        header_tf  == SumCounts(HeaderFindall(doc.content), token, HeaderWeight)
        code_tf    == SumCounts(CodeBlockFindall(doc.content), token, CodeWeight)
        link_tf    == SumCounts(LinkTextFindall(doc.content), token, LinkWeight)
    IN  content_tf + title_tf + header_tf + code_tf + link_tf

\* Idf with the fault of leaving out the added 1.0.
Idf_WithoutOne(qt) ==
    LET N == IF Len(docs) > 1 THEN Len(docs) ELSE 1
    IN  Log(N + 1, 1 + Get(doc_frequency, qt, 0))

\* The idf of search() for the token qt, in fixed point.
Idf(qt) ==
    LET N == IF Len(docs) > 1 THEN Len(docs) ELSE 1
    IN  Log(N + 1, 1 + Get(doc_frequency, qt, 0)) + Scale

\* Accumulate with the fault of a new entry per posting instead of one entry
\* per document.
Accumulate_NewEntry(scores, idx, v) == Append(scores, [idx |-> idx, score |-> v])

\* scores[idx] = scores.get(idx, 0.0) + v on the dict scores, held as the
\* sequence of its items in insertion order.
Accumulate(scores, idx, v) ==
    IF \E j \in 1..Len(scores) : scores[j].idx = idx
    THEN [j \in 1..Len(scores) |->
            IF scores[j].idx = idx
            THEN [idx |-> idx, score |-> scores[j].score + v] ELSE scores[j]]
    ELSE Append(scores, [idx |-> idx, score |-> v])

RECURSIVE PostingsLoop(_, _, _)
\* The inner loop of search() over the postings of the query token qt.
PostingsLoop(scores, postings, qt) ==
    IF postings = <<>> THEN scores
    ELSE LET idx == Head(postings)
             d   == docs[idx + 1]
             tf  == _calculate_md_score(d, qt)
         IN  PostingsLoop(Accumulate(scores, idx, tf * Idf(qt)), Tail(postings), qt)

\* Postings with the fault of scanning every document of the index.
Postings_EveryDocument(qt) == [j \in 1..Len(docs) |-> j - 1]

\* self.doc_indices.get(qt, []) of search().
Postings(qt) == Get(doc_indices, qt, <<>>)

RECURSIVE QueryLoop(_, _)
\* The outer loop of search() over the query tokens.
QueryLoop(scores, q_tokens) ==
    IF q_tokens = <<>> THEN scores
    ELSE QueryLoop(PostingsLoop(scores, Postings(Head(q_tokens)), Head(q_tokens)),
                   Tail(q_tokens))

\* q_tokens of search(): the lowercased tokens of the query.
QueryTokens(query) ==
    LET found == TokenFindall(query)
    IN  [j \in 1..Len(found) |-> Lower(found[j])]

RECURSIVE SortedDesc_Ascending(_)
\* SortedDesc with the fault of leaving out reverse=True.
SortedDesc_Ascending(items) ==
    IF items = <<>> THEN <<>>
    ELSE LET rest == SortedDesc_Ascending(SubSeq(items, 1, Len(items) - 1))
             x    == items[Len(items)]
             keep == Cardinality({j \in 1..Len(rest) : rest[j].score <= x.score})
         IN  SubSeq(rest, 1, keep) \o <<x>> \o SubSeq(rest, keep + 1, Len(rest))

RECURSIVE SortedDesc(_)
\* sorted(items, key=score, reverse=True): stable, so items of equal score
\* keep their order.
SortedDesc(items) ==
    IF items = <<>> THEN <<>>
    ELSE LET rest == SortedDesc(SubSeq(items, 1, Len(items) - 1))
             x    == items[Len(items)]
             keep == Cardinality({j \in 1..Len(rest) : rest[j].score >= x.score})
         IN  SubSeq(rest, 1, keep) \o <<x>> \o SubSeq(rest, keep + 1, Len(rest))

\* ranked of search(): the (score, document) pairs, best first.  A pair holds
\* the ordinal idx of its document, which is the object docs[idx].
Ranked(query) == SortedDesc(QueryLoop(<<>>, QueryTokens(query)))

\* SearchResult with the fault of leaving out the cut to k.
SearchResult_Uncut(query, k) == Ranked(query)

\* The value search(query, k) returns.
SearchResult(query, k) == Slice(Ranked(query), k)

RECURSIVE SetDefaults(_, _)
\* The dict once setdefault(tok, []) ran for each token of toks.
SetDefaults(dict, toks) ==
    IF toks = <<>> THEN dict
    ELSE SetDefaults(IF Head(toks) \in DOMAIN dict THEN dict
                     ELSE Put(dict, Head(toks), <<>>), Tail(toks))

\* search with the fault of reading the postings with setdefault: a query
\* token absent from the index gets an empty postings list.
Search_SetDefault(query, k) ==
    /\ call' = [op |-> "search", query |-> query, k |-> k,
                result |-> SearchResult(query, k)]
    /\ doc_indices' = SetDefaults(doc_indices, QueryTokens(query))
    /\ UNCHANGED <<docs, doc_frequency, run, chat>>

\* IndexSearch.search(query, k): what the method does.
IndexSearch_search(query, k) ==
    /\ call' = [op |-> "search", query |-> query, k |-> k,
                result |-> SearchResult(query, k)]
    /\ UNCHANGED <<docs, doc_frequency, doc_indices>>

\* IndexSearch.search(query, k), called on its own.
Search(query, k) ==
    /\ IndexSearch_search(query, k)
    /\ UNCHANGED <<run, chat>>

\* ------------------------------------------------------------ make_snippet

\* The page argument of make_snippet when no page was fetched (None).
NoPage == [none |-> TRUE]

\* A fetched Page; make_snippet reads only its content.
Page(content) == [content |-> content]

\* The lines of make_snippet: the stripped non-blank lines of the stripped
\* text without its code fences.
SnippetLines(content) ==
    LET text  == CodeFenceSub(Strip(content))
        split == SplitLines(text)
    IN  SelectSeq([j \in 1..Len(split) |-> Strip(split[j])], LAMBDA l : l # <<>>)

\* DropTitleLine with the fault of dropping nothing.
DropTitleLine_Keep(lines, display_title) == lines

\* The lines left once a leading heading or title line is dropped.
DropTitleLine(lines, display_title) ==
    IF lines # <<>>
       /\ (StartsWith(lines[1], <<"#">>)
           \/ StartsWith(Lower(Normalize(lines[1])), Lower(Normalize(display_title))))
    THEN Tail(lines) ELSE lines

\* Whether the line scan of make_snippet skips the line: a heading, a bullet
\* or a numbered-list item.
IsSkippedLine(line) ==
    LET no_leading == LStrip(line)
    IN  \/ StartsWith(no_leading, <<"#">>)
        \/ StartsWith(no_leading, <<"-">>)
        \/ StartsWith(no_leading, <<"*">>)
        \/ IsNumbered(no_leading)

RECURSIVE SnippetLoop_NeverBreaks(_, _)
\* SnippetLoop with the fault of never breaking on a heading, bullet or
\* numbered-list line: such a line is skipped wherever it stands.
SnippetLoop_NeverBreaks(st, lines) ==
    IF lines = <<>> THEN st
    ELSE LET line == Head(lines)
             buf  == Append(st.buf, line)
         IN  IF IsSkippedLine(line)
             THEN SnippetLoop_NeverBreaks(st, Tail(lines))
             ELSE IF Len(Join(buf, <<" ">>)) >= ParagraphChars
                     \/ line[Len(line)] = "."
             THEN [paras |-> Append(st.paras, Join(buf, <<" ">>)), buf |-> buf]
             ELSE SnippetLoop_NeverBreaks([paras |-> st.paras, buf |-> buf],
                                          Tail(lines))

RECURSIVE SnippetLoop_StrictThreshold(_, _)
\* SnippetLoop with the fault of a strict comparison: the buffer must be
\* longer than the paragraph length to end the scan.
SnippetLoop_StrictThreshold(st, lines) ==
    IF lines = <<>> THEN st
    ELSE LET line == Head(lines)
             buf  == Append(st.buf, line)
         IN  IF IsSkippedLine(line)
             THEN IF st.buf # <<>> THEN st
                  ELSE SnippetLoop_StrictThreshold(st, Tail(lines))
             ELSE IF Len(Join(buf, <<" ">>)) > ParagraphChars
                     \/ line[Len(line)] = "."
             THEN [paras |-> Append(st.paras, Join(buf, <<" ">>)), buf |-> buf]
             ELSE SnippetLoop_StrictThreshold([paras |-> st.paras, buf |-> buf],
                                              Tail(lines))

RECURSIVE SnippetLoop(_, _)
\* The line scan of make_snippet from the state st = (paras, buf) over the
\* lines left; a break ends the scan.
SnippetLoop(st, lines) ==
    IF lines = <<>> THEN st
    ELSE LET line == Head(lines)
             buf  == Append(st.buf, line)
         IN  IF IsSkippedLine(line)
             THEN IF st.buf # <<>> THEN st ELSE SnippetLoop(st, Tail(lines))
             ELSE IF Len(Join(buf, <<" ">>)) >= ParagraphChars
                     \/ line[Len(line)] = "."
             THEN [paras |-> Append(st.paras, Join(buf, <<" ">>)), buf |-> buf]
             ELSE SnippetLoop([paras |-> st.paras, buf |-> buf], Tail(lines))

\* SnippetText with the fault of having no fallback: with no paragraph the
\* text is empty.
SnippetText_EmptyFallback(page, display_title) ==
    LET lines == DropTitleLine(SnippetLines(page.content), display_title)
        st    == SnippetLoop([paras |-> <<>>, buf |-> <<>>], lines)
        paras == IF st.paras = <<>> /\ st.buf # <<>>
                 THEN <<Join(st.buf, <<" ">>)>> ELSE st.paras
    IN  Normalize(IF paras # <<>> THEN paras[1] ELSE <<>>)

\* The text make_snippet has before it cuts it to max_chars: the paragraph
\* found, else the display title, with its whitespace collapsed.
SnippetText(page, display_title) ==
    LET lines == DropTitleLine(SnippetLines(page.content), display_title)
        st    == SnippetLoop([paras |-> <<>>, buf |-> <<>>], lines)
        paras == IF st.paras = <<>> /\ st.buf # <<>>
                 THEN <<Join(st.buf, <<" ">>)>> ELSE st.paras
    IN  Normalize(IF paras # <<>> THEN paras[1] ELSE display_title)

\* The cut of make_snippet: a text longer than max_chars is cut and marked.
Truncate(snippet, max_chars) ==
    IF Len(snippet) > max_chars
    THEN RStrip(Slice(snippet, max_chars - 1)) \o Ellipsis
    ELSE snippet

\* make_snippet with the fault of treating the fallback title as any other
\* text: its whitespace is collapsed and it is cut to max_chars.
make_snippet_CutsFallback(page, display_title, max_chars) ==
    IF page = NoPage \/ page.content = <<>>
    THEN Truncate(Normalize(display_title), max_chars)
    ELSE Truncate(SnippetText(page, display_title), max_chars)

\* make_snippet(page, display_title, max_chars)
make_snippet(page, display_title, max_chars) ==
    IF page = NoPage \/ page.content = <<>> THEN display_title
    ELSE Truncate(SnippetText(page, display_title), max_chars)

\* A call of make_snippet returns.
MakeSnippet ==
    /\ call.op = "make_snippet"
    /\ ~call.returned
    /\ call' = [call EXCEPT !.returned = TRUE,
                            !.result = make_snippet(call.page, call.display_title,
                                                    call.max_chars)]
    /\ UNCHANGED <<docs, doc_frequency, doc_indices, run, chat>>

\* ----------------------------------------------------------------- inputs

\* Doc(uri, display_title, content, index_title)
Doc(uri, display_title, content, index_title) ==
    [uri |-> uri, display_title |-> display_title, content |-> content,
     index_title |-> index_title]

\* The documents passed to add, as (index title, body) pairs: one token in the
\* body only; a stub with an empty body; a repeated token; a longer token; a
\* heading; a link; a fenced code block; a token beside a longer token that
\* contains it.  add and search read neither the uri nor the display title.
DocInputs ==
    { Doc("u1", <<"T">>, <<"a">>, <<"b">>),
      Doc("u2", <<"T">>, <<>>, <<"B", " ", "a">>),
      Doc("u3", <<"T">>, <<"a", " ", "a">>, <<"b">>),
      Doc("u4", <<"T">>, <<"a", "b">>, <<"b">>),
      Doc("u5", <<"T">>, <<"#", " ", "A", "\n", "b">>, <<"b">>),
      Doc("u6", <<"T">>, <<"[", "a", "]", "(", "c", ")">>, <<"b">>),
      Doc("u7", <<"T">>, <<"~", "~", "~", "\n", "a", "~", "~", "~">>, <<"b">>),
      Doc("u8", <<"T">>, <<"a", " ", "a", "b">>, <<"c">>) }

\* The queries passed to search: one token, two tokens with an upper-case
\* letter, a repeated token, a token of no document.
Queries ==
    { <<"a">>,
      <<"A", " ", "b">>,
      <<"a", " ", "a">>,
      <<"d">> }

\* The character c, n times.
Rep(c, n) == [i \in 1..n |-> c]

\* Two lines that joined have one character less than a paragraph, and a
\* third line.
BodyBelowParagraph ==
    Rep("x", 59) \o <<NL>> \o Rep("y", 59) \o <<NL, "z", "z", NL, "w", "w">>

\* Two lines that joined have the length of a paragraph, and a third line.
BodyOfParagraph ==
    Rep("x", 59) \o <<NL>> \o Rep("y", 60) \o <<NL, "z", "z">>

\* The bodies of the documents indexed to observe the title boost: bodies of
\* no token of the query, empty, of one character and of lengths around the
\* short-page threshold, and a one-character body that is the query token.
BoostBodies ==
    {Rep("x", n) : n \in {0, 1, _SHORT_PAGE_THRESHOLD - 1, _SHORT_PAGE_THRESHOLD,
                          _SHORT_PAGE_THRESHOLD + 1}}
        \cup {<<"a">>}

\* Their index title holds the query token once; one more document holds it
\* twice.
BoostDocs ==
    {Doc("u", <<"T">>, body, <<"a">>) : body \in BoostBodies}
        \cup {Doc("u", <<"T">>, Rep("x", _SHORT_PAGE_THRESHOLD), <<"a", " ", "a">>)}

\* The page contents passed to make_snippet.
SnippetBodies ==
    { <<"T", "i", "t", "l", "e", "\n", "a", "b", " ", "c", "d", " ", "e", "f", " ", "g", "h", " ", "i", "j", ".">>,
      <<"a", "b", " ", "c", "d", " ", "e", "f", " ", "g", "h", " ", "i", "j", " ", "k", "l", ".">>,
      <<"a", "b", "c", "d", " ", "e", "f", "g", "h", " ", "i", "j", "k", "l", " ", "m", "n", ".">>,
      <<"#", " ", "H", "\n", "-", " ", "x", "\n", "a", "b", "\n", "c", "d", ".", "\n", "e", "f">>,
      <<"#", " ", "H", "\n", "-", " ", "x">>,
      <<"a", "b", "\n", "-", " ", "x", "\n", "c", "d">>,
      <<"~", "~", "~", "\n", "c", "o", "d", "e", "~", "~", "~", "\n", "a", "b", ".">>,
      <<"1", ".", " ", "x", "\n", "a", "b">>,
      <<"a", "b", " ", "c", "d", " ", " ", " ", "e", "f", " ", "g", "h">>,
      <<"T", "i", "t", "l", "e">>,
      <<" ", "T", "I", "T", "L", "E", " ", "\n", "#", " ", "H", "\n", "-", " ", "x">>,
      <<"t", "i", "t", "l", "e", "\n", "-", " ", "x", "\n", "a", "b", " ", "c", "d">>,
      <<"-", " ", "x", "\n", "a", "b", "\n", "1", ".", " ", "y", "\n", "c", "d">>,
      BodyBelowParagraph,
      BodyOfParagraph }

\* The display titles passed to make_snippet.
SnippetTitles ==
    { <<"T">>,
      <<"T", "i", "t", "l", "e">>,
      <<"A", " ", "l", "o", "n", "g", " ", "t", "i", "t", "l", "e">>,
      <<" ", "A", " ", " ", "l", "o", "n", "g", " ", "t", "i", "t", "l", "e">> }

\* The pages passed to make_snippet: none, one with no content, and one per
\* body.
SnippetPages == {NoPage, Page(<<>>)} \cup {Page(b) : b \in SnippetBodies}

\* The characters of the texts passed to the tokenizer on its own: letters of
\* both cases, a digit, the underscore and two separators.
TokenAlphabet == {"a", "B", "1", "_", " ", "-"}

\* The texts passed to the tokenizer on its own: every text of up to MaxLen
\* characters.
TokenTexts == UNION {[1..n -> TokenAlphabet] : n \in 0..MaxLen}

\* The titles of the links of the link list, as parse_llms_txt returns them.
LinkTitles ==
    << <<"a">>,
       <<"a", " ", " ", "a">>,
       <<"b", " ", "b", " ", "a">>,
       <<"A", "-", "b">> >>

\* The URLs of the links of the link list.
LinkUrls ==
    << <<"h", ":", "/", "/", "x", "/", "p", "1">>,
       <<"h", ":", "/", "/", "x", "/", "b", "_", "c", "/">>,
       <<"h", ":", "/", "/", "x", "/", "d", "/", "i", "n", "d", "e", "x", ".", "e">>,
       <<"h", ":", "/", "/", "x", "/", "e", "-", "1", "f">>,
       <<"h", ":", "/", "/", "x">>,
       <<"h", ":", "/", "/", "x", "/", "g">> >>

\* The i-th link of the link list: the titles and the URLs recur, so a long
\* list links a URL twice, under two titles.
LinkAt(i) ==
    [title |-> LinkTitles[((i - 1) % Len(LinkTitles)) + 1],
     url   |-> LinkUrls[((i - 1) % Len(LinkUrls)) + 1]]

\* The queries passed to search_agentcore_docs: a token of every link, a
\* token of some links, a token of the URL linked twice.
LinkQueries == { <<"a">>, <<"b">>, <<"P", "1">> }

\* What fetch_and_clean returns: no page, or a page.
FetchOutcomes == {NoPage, Page(<<"a", "b", " ", "c", "d", ".">>)}

\* ---------------------------------------------------- search_agentcore_docs

\* The document search_agentcore_docs indexes for a link: no content, and an
\* index title of the display title and the title of the URL.
LinkDoc(link) ==
    Doc(link.url, Normalize(link.title), <<>>,
        Normalize(link.title) \o <<" ">> \o title_from_url(link.url))

\* Round3 with the fault of cutting the score at the third decimal place.
Round3_Truncate(score) == score \div 10

\* round(score, 3), in thousandths: the nearest thousandth of the score.
Round3(score) == (score + 5) \div 10

\* HydrateList with the fault of fetching the page of every result.
HydrateList_All(results) == results

\* The results whose pages are fetched: results[:SNIPPET_HYDRATE_MAX].
HydrateList(results) == Slice(results, SNIPPET_HYDRATE_MAX)

\* ReturnDocs with the fault of answering only with the results whose page
\* was fetched.
ReturnDocs_OnlyFetched(results, url_cache) ==
    LET got == SelectSeq(results,
                   LAMBDA r : Get(url_cache, docs[r.idx + 1].uri, NoPage) # NoPage)
    IN  [j \in 1..Len(got) |->
            LET doc == docs[got[j].idx + 1]
            IN  [url     |-> doc.uri,
                 title   |-> doc.display_title,
                 score   |-> Round3(got[j].score),
                 snippet |-> make_snippet(Get(url_cache, doc.uri, NoPage),
                                          doc.display_title, DefaultMaxChars)]]

\* The response of search_agentcore_docs: one dict per result.
ReturnDocs(results, url_cache) ==
    [j \in 1..Len(results) |->
        LET doc == docs[results[j].idx + 1]
        IN  [url     |-> doc.uri,
             title   |-> doc.display_title,
             score   |-> Round3(results[j].score),
             snippet |-> make_snippet(Get(url_cache, doc.uri, NoPage),
                                      doc.display_title, DefaultMaxChars)]]

\* One pass of the indexing loop: the next link is added to the index and its
\* URL entered in url_cache with no page.
IndexLink ==
    /\ run.pc = "index"
    /\ run.next <= Len(run.links)
    /\ IndexSearch_add(LinkDoc(run.links[run.next]))
    /\ run' = [run EXCEPT !.next = @ + 1,
                          !.url_cache = Put(@, run.links[run.next].url, NoPage)]
    /\ UNCHANGED chat

\* The search, once every link is indexed.
SearchLinks ==
    /\ run.pc = "index"
    /\ run.next > Len(run.links)
    /\ IndexSearch_search(run.query, run.k)
    /\ run' = [run EXCEPT !.pc = "hydrate", !.results = call'.result, !.i = 1]
    /\ UNCHANGED chat

\* Hydrate with the fault of an update in place: the content of the page
\* fetched is written into the indexed document.
Hydrate_UpdatesDocument ==
    /\ run.pc = "hydrate"
    /\ run.i <= Len(HydrateList(run.results))
    /\ LET idx == HydrateList(run.results)[run.i].idx
           doc == docs[idx + 1]
       IN  IF Get(run.url_cache, doc.uri, NoPage) = NoPage
           THEN \E page \in FetchOutcomes :
                    /\ run' = [run EXCEPT
                                  !.i = @ + 1,
                                  !.fetched = Append(@, doc.uri),
                                  !.url_cache = IF page # NoPage
                                                THEN Put(@, doc.uri, page) ELSE @]
                    /\ docs' = IF page # NoPage
                               THEN [docs EXCEPT ![idx + 1].content = page.content]
                               ELSE docs
           ELSE run' = [run EXCEPT !.i = @ + 1] /\ docs' = docs
    /\ UNCHANGED <<doc_frequency, doc_indices, call, chat>>

\* One pass of the hydration loop: the page of the next result is fetched
\* unless url_cache holds it, and kept when the fetch returns one.
Hydrate ==
    /\ run.pc = "hydrate"
    /\ run.i <= Len(HydrateList(run.results))
    /\ LET doc == docs[HydrateList(run.results)[run.i].idx + 1]
       IN  IF Get(run.url_cache, doc.uri, NoPage) = NoPage
           THEN \E page \in FetchOutcomes :
                    run' = [run EXCEPT
                               !.i = @ + 1,
                               !.fetched = Append(@, doc.uri),
                               !.url_cache = IF page # NoPage
                                             THEN Put(@, doc.uri, page) ELSE @]
           ELSE run' = [run EXCEPT !.i = @ + 1]
    /\ UNCHANGED <<docs, doc_frequency, doc_indices, call, chat>>

\* The response is built and returned.
Respond ==
    /\ run.pc = "hydrate"
    /\ run.i > Len(HydrateList(run.results))
    /\ run' = [run EXCEPT !.pc = "done",
                          !.return_docs = ReturnDocs(run.results, run.url_cache)]
    /\ UNCHANGED <<docs, doc_frequency, doc_indices, call, chat>>

\* ------------------------------------------- multi_turn_chat.InteractiveChat

\* Python's None.
None == "None"

\* The most user messages one conversation holds, and the most images one
\* session numbers.
MaxTurns == 2
MaxImages == 2

\* The paths a /load names, the messages typed and the replies of the model.
Paths == {"a.png", "b.png"}
Messages == {"edit"}
ImageUrl == "data:image/png;base64"

\* InteractiveChat.__init__ and ImageChat.__init__: an empty history, no
\* current image, no loaded image, no image saved yet.
NewChat ==
    [running |-> TRUE, history |-> <<>>, current_image_url |-> None,
     image_count |-> 0, loaded_image_path |-> None]

\* One entry of ImageChat._history: a user message carries the image encoded
\* with it (None for a text-only content).
UserMessage(message, image_path) ==
    [role |-> "user", content |-> message, image |-> image_path]

AssistantMessage(text) ==
    [role |-> "assistant", content |-> IF text = None THEN "" ELSE text,
     image |-> None]

\* The number of user messages of a history.
UserTurns(history) ==
    Cardinality({i \in 1..Len(history) : history[i].role = "user"})

\* The ways one ImageChat.send ends: the image file is gone when it is
\* encoded ("missing"), the request is answered with another status than 200
\* ("failed"), with no choice ("empty"), with a text only ("text"), or with an
\* image ("image").
SendOutcomes(image_path) ==
    {"failed", "empty", "text", "image"}
        \cup (IF image_path # None THEN {"missing"} ELSE {})

\* ImageChat.send(message, image_path) ending with the outcome given: the
\* history and the current image it leaves, and the image URL it returns
\* (None when it raises or returns none).
ImageChat_send(c, message, image_path, outcome) ==
    LET sent == Append(c.history, UserMessage(message, image_path))
    IN  CASE outcome = "missing" ->
                 [history |-> c.history, current_image_url |-> c.current_image_url,
                  image_url |-> None]
          [] outcome \in {"failed", "empty"} ->
                 [history |-> sent, current_image_url |-> c.current_image_url,
                  image_url |-> None]
          [] outcome = "text" ->
                 [history |-> Append(sent, AssistantMessage("t")),
                  current_image_url |-> c.current_image_url,
                  image_url |-> None]
          [] outcome = "image" ->
                 [history |-> Append(sent, AssistantMessage(None)),
                  current_image_url |-> ImageUrl,
                  image_url |-> ImageUrl]

\* InteractiveChat.send_message: the image it hands to ImageChat.send.
ImageToSend(c) ==
    IF c.loaded_image_path # None /\ c.history = <<>>
    THEN c.loaded_image_path ELSE None

\* The commands of main's loop leave the index and the documentation search
\* alone.
ChatFrame == UNCHANGED <<docs, doc_frequency, doc_indices, run>>

\* A line that is no command: InteractiveChat.send_message(message), and
\* main's handler of the exception it may raise.
SendMessage(message) ==
    /\ chat.running
    /\ UserTurns(chat.history) < MaxTurns
    /\ chat.image_count < MaxImages
    /\ LET image_to_send == ImageToSend(chat)
       IN  \E outcome \in SendOutcomes(image_to_send) :
               LET r == ImageChat_send(chat, message, image_to_send, outcome)
               IN  /\ chat' = [chat EXCEPT
                                 !.loaded_image_path =
                                     IF image_to_send # None THEN None ELSE @,
                                 !.history = r.history,
                                 !.current_image_url = r.current_image_url,
                                 !.image_count =
                                     IF r.image_url # None THEN @ + 1 ELSE @]
                   /\ call' = [op |-> "send_message", message |-> message,
                               image |-> image_to_send, outcome |-> outcome]
    /\ ChatFrame

\* "/load <path>": InteractiveChat.load_image(path); the path exists or not.
Load(path) ==
    /\ chat.running
    /\ \E exists \in BOOLEAN :
           /\ chat' = [chat EXCEPT
                         !.loaded_image_path = IF exists THEN path ELSE @]
           /\ call' = [op |-> "load_image", path |-> path, result |-> exists]
    /\ ChatFrame

\* "/clear": InteractiveChat.clear().
Clear ==
    /\ chat.running
    /\ chat' = [chat EXCEPT !.history = <<>>, !.current_image_url = None,
                            !.loaded_image_path = None]
    /\ call' = [op |-> "clear"]
    /\ ChatFrame

\* "/save [name]": InteractiveChat.save_current(filename).
Save(filename) ==
    /\ chat.running
    /\ chat.image_count < MaxImages
    /\ chat' = [chat EXCEPT
                  !.image_count =
                      IF chat.current_image_url # None /\ filename = None
                      THEN @ + 1 ELSE @]
    /\ call' = [op |-> "save_current", filename |-> filename,
                result |-> chat.current_image_url # None]
    /\ ChatFrame

\* An empty line, an unknown command or "/load" with no path: nothing but a
\* message printed.
Ignored ==
    /\ chat.running
    /\ call' = [op |-> "ignored"]
    /\ UNCHANGED chat
    /\ ChatFrame

\* "/quit", or the end of the input.
Quit ==
    /\ chat.running
    /\ chat' = [chat EXCEPT !.running = FALSE]
    /\ call' = [op |-> "quit"]
    /\ ChatFrame

\* -------------------------------------------------------------- behaviour

Init ==
    /\ docs = <<>>
    /\ doc_frequency = EmptyDict
    /\ doc_indices = EmptyDict
    /\ call = [op |-> "none"]
    /\ run = Idle
    /\ chat = NewChat

\* The calls made on one IndexSearch.
Next ==
    \/ \E doc \in DocInputs : Add(doc)
    \/ \E query \in Queries, k \in 0..MaxK : Search(query, k)

Spec == Init /\ [][Next]_vars

\* The calls of make_snippet: one call per behaviour, its arguments drawn at
\* the start.
SnippetInit ==
    /\ docs = <<>>
    /\ doc_frequency = EmptyDict
    /\ doc_indices = EmptyDict
    /\ call \in [op : {"make_snippet"}, page : SnippetPages,
                 display_title : SnippetTitles,
                 max_chars : (1..MaxChars) \cup {DefaultMaxChars},
                 returned : {FALSE}, result : {<<>>}]
    /\ run = Idle
    /\ chat = NewChat

SnippetNext == MakeSnippet

SnippetSpec == SnippetInit /\ [][SnippetNext]_vars

\* One call of search_agentcore_docs: the link list, the query and k are
\* drawn at the start.
DocsInit ==
    /\ docs = <<>>
    /\ doc_frequency = EmptyDict
    /\ doc_indices = EmptyDict
    /\ call = [op |-> "none"]
    /\ \E n \in 0..MaxLinks, query \in LinkQueries, k \in 0..MaxLinks :
           run = [pc |-> "index", links |-> [i \in 1..n |-> LinkAt(i)],
                  query |-> query, k |-> k, next |-> 1, url_cache |-> EmptyDict,
                  results |-> <<>>, i |-> 1, fetched |-> <<>>,
                  return_docs |-> <<>>]
    /\ chat = NewChat

DocsNext == IndexLink \/ SearchLinks \/ Hydrate \/ Respond

DocsSpec == DocsInit /\ [][DocsNext]_vars

\* The tokenizer on its own: one text is tokenized at ingestion, as the body
\* of the only document of an index, or at query time, as the query of a
\* search of the empty index or of the index of that text.
TokenizeAdd ==
    /\ call.op = "none"
    /\ \E text \in TokenTexts : Add(Doc("u", <<>>, text, <<>>))

TokenizeSearch ==
    /\ call.op # "search"
    /\ \E text \in (IF docs = <<>> THEN TokenTexts ELSE {docs[1].content}) :
           Search(text, 1)

TokenNext == TokenizeAdd \/ TokenizeSearch

TokenSpec == Init /\ [][TokenNext]_vars

\* One session of the interactive image chat: the lines typed at main's
\* prompt.
ChatNext ==
    \/ \E message \in Messages : SendMessage(message)
    \/ \E path \in Paths : Load(path)
    \/ Clear
    \/ \E filename \in {None, "out.png"} : Save(filename)
    \/ Ignored
    \/ Quit

ChatSpec == Init /\ [][ChatNext]_vars

\* The title boost observed: documents whose index title holds the token
\* "a" are added, and "a" is searched with k large enough to return them all.
BoostNext ==
    \/ \E doc \in BoostDocs : Add(doc)
    \/ Search(<<"a">>, MaxDocs)

BoostSpec == Init /\ [][BoostNext]_vars

\* ----------------------------------------------------------- properties

\* The tokens of a document: the set of tokens of its haystack.
TokenSet(doc) ==
    LET toks == TokenFindall(Haystack(doc))
    IN  {toks[j] : j \in 1..Len(toks)}

\* The tokens of the documents of the index.
AllTokens == UNION {TokenSet(docs[i]) : i \in 1..Len(docs)}

\* The ordinals of the documents whose haystack holds the token.
DocsWith(tok) == {i \in 0..Len(docs) - 1 : tok \in TokenSet(docs[i + 1])}

\* How many members of seq equal x.
Occurrences(seq, x) == Cardinality({j \in 1..Len(seq) : seq[j] = x})

\* No member of seq occurs twice.
NoRepeat(seq) == \A i, j \in 1..Len(seq) : i # j => seq[i] # seq[j]

\* The ordinals a result lists, in order.
ResultOrdinals(result) == [j \in 1..Len(result) |-> result[j].idx]

\* A search has returned.
Searched == call.op = "search"

\* C1: add(D) appends D's ordinal to postings[tok] exactly once for every
\* distinct token of D's haystack: each postings list is as long as the number
\* of documents that hold its token, and no ordinal occurs twice in it.
C1_PostingsOncePerDocument ==
    \A tok \in DOMAIN doc_indices :
        /\ Len(doc_indices[tok]) = Cardinality(DocsWith(tok))
        /\ NoRepeat(doc_indices[tok])

\* C2: after any sequence of adds, documentFrequency is defined on exactly the
\* tokens of the documents added, and documentFrequency[tok] is the number of
\* documents whose haystack holds tok, however often tok recurs in a document.
C2_FrequencyCountsDocuments ==
    /\ DOMAIN doc_frequency = AllTokens
    /\ \A tok \in AllTokens : doc_frequency[tok] = Cardinality(DocsWith(tok))

\* C2 witness: two documents hold a token, which recurs in the second one,
\* and its frequency is 2.
C2_Witness ==
    /\ Len(docs) = 2
    /\ \E tok \in DOMAIN doc_frequency :
        /\ Occurrences(TokenFindall(Haystack(docs[2])), tok) >= 2
        /\ tok \in TokenSet(docs[1])
        /\ doc_frequency[tok] = 2

RECURSIVE TfIdfSum(_, _)
\* The sum, over the query tokens the document idx holds, of tf * idf.
TfIdfSum(idx, q_tokens) ==
    IF q_tokens = <<>> THEN 0
    ELSE (IF Head(q_tokens) \in TokenSet(docs[idx + 1])
          THEN _calculate_md_score(docs[idx + 1], Head(q_tokens)) * Idf(Head(q_tokens))
          ELSE 0)
         + TfIdfSum(idx, Tail(q_tokens))

\* C3: for a query of distinct tokens, the score of every returned document is
\* the sum over the query tokens it holds of tf * idf, each counted once.
C3_ScoreIsSumOfTfIdf ==
    (Searched /\ NoRepeat(QueryTokens(call.query))) =>
        \A j \in 1..Len(call.result) :
            call.result[j].score
                = TfIdfSum(call.result[j].idx, QueryTokens(call.query))

\* Whether the document idx holds a token of the query.
Matches(idx, query) ==
    \E j \in 1..Len(QueryTokens(query)) :
        QueryTokens(query)[j] \in TokenSet(docs[idx + 1])

\* C4: a document none of whose haystack tokens is a query token is in no
\* result of search.
C4_OnlyMatchingDocuments ==
    Searched => \A j \in 1..Len(call.result) : Matches(call.result[j].idx, call.query)

\* C4 witness: of two documents the search with k = 2 returned one, and the
\* other holds no token of the query.
C4_Witness ==
    /\ Searched /\ call.k = 2 /\ Len(docs) = 2
    /\ Len(call.result) = 1
    /\ \E i \in 0..1 : ~Matches(i, call.query)

\* C5: search(query, 0) returns the empty list.
C5_ZeroKIsEmpty == (Searched /\ call.k = 0) => call.result = <<>>

\* C5 witness: a search with k = 0 on an index which holds documents that
\* match the query.
C5_Witness ==
    /\ Searched /\ call.k = 0
    /\ \E i \in 0..Len(docs) - 1 : Matches(i, call.query)

\* C6: the result of search is in non-increasing order of score.
C6_NonIncreasingScores ==
    Searched =>
        \A j \in 1..Len(call.result) - 1 :
            call.result[j].score >= call.result[j + 1].score

\* C6 witness: the result lists a document added later before one added
\* earlier, whose score is strictly lower.
C6_Witness ==
    /\ Searched /\ Len(call.result) = 2
    /\ call.result[1].idx > call.result[2].idx
    /\ call.result[1].score > call.result[2].score

\* The candidates of a query: the ordinals in the postings of its tokens.
Candidates(query) ==
    {i \in 0..Len(docs) - 1 :
        \E j \in 1..Len(QueryTokens(query)) :
            Occurrences(Get(doc_indices, QueryTokens(query)[j], <<>>), i) > 0}

RECURSIVE CandidateScore(_, _)
\* The score of the candidate idx: over the query tokens, one tf * idf per
\* entry of idx in the postings of the token.
CandidateScore(idx, q_tokens) ==
    IF q_tokens = <<>> THEN 0
    ELSE Occurrences(Get(doc_indices, Head(q_tokens), <<>>), idx)
            * _calculate_md_score(docs[idx + 1], Head(q_tokens)) * Idf(Head(q_tokens))
         + CandidateScore(idx, Tail(q_tokens))

\* C7: search returns min(k, M) pairs for M candidates, each a candidate with
\* its score, no document twice, and no candidate left out has a strictly
\* higher score than a returned one.
C7_FirstKOfCandidates ==
    Searched =>
        LET M   == Cardinality(Candidates(call.query))
            got == ResultOrdinals(call.result)
        IN  /\ Len(call.result) = (IF call.k < M THEN call.k ELSE M)
            /\ NoRepeat(got)
            /\ \A j \in 1..Len(got) :
                /\ got[j] \in Candidates(call.query)
                /\ call.result[j].score
                     = CandidateScore(got[j], QueryTokens(call.query))
                /\ \A c \in Candidates(call.query) :
                     Occurrences(got, c) = 0 =>
                        CandidateScore(c, QueryTokens(call.query))
                            <= call.result[j].score

\* C7 witness: of two candidates the search with k = 1 returned one, the other
\* having a strictly lower score, and the one returned has several entries in
\* the postings of the query token.
C7_Witness ==
    /\ Searched /\ call.k = 1
    /\ Cardinality(Candidates(call.query)) = 2
    /\ Len(call.result) = 1
    /\ \E c \in Candidates(call.query) :
        CandidateScore(c, QueryTokens(call.query)) < call.result[1].score
    /\ \E j \in 1..Len(QueryTokens(call.query)) :
        Occurrences(Get(doc_indices, QueryTokens(call.query)[j], <<>>),
                    call.result[1].idx) >= 2

\* The index holds one document, the query is the one token q and k = 1;
\* neither the index title nor a header, code block or link text of the
\* document holds an occurrence of q.
SingleDocumentCase(q) ==
    /\ Searched /\ call.k = 1 /\ Len(docs) = 1
    /\ QueryTokens(call.query) = <<q>>
    /\ Count(Lower(docs[1].index_title), q) = 0
    /\ SumCounts(HeaderFindall(docs[1].content), q, 1) = 0
    /\ SumCounts(CodeBlockFindall(docs[1].content), q, 1) = 0
    /\ SumCounts(LinkTextFindall(docs[1].content), q, 1) = 0

\* The pair of the one document with the score 1.0.
ScoreOne == <<[idx |-> 0, score |-> Scale]>>

\* C8 as stated: a single document whose body holds the token q exactly once,
\* with no occurrence of q in its title, headers, code blocks and link text, is
\* returned by search(q, 1) with the score 1.0.
C8_SingleTokenScoresOne ==
    \A q \in AllTokens :
        (SingleDocumentCase(q)
         /\ Occurrences(TokenFindall(Lower(docs[1].content)), q) = 1)
            => call.result = ScoreOne

\* C8 amended: as C8, for a body in which the token q is also the only
\* occurrence of the string q, so that q is part of no longer token.
C8_SingleOccurrenceScoresOne ==
    \A q \in AllTokens :
        (SingleDocumentCase(q)
         /\ Occurrences(TokenFindall(Lower(docs[1].content)), q) = 1
         /\ Count(Lower(docs[1].content), q) = 1)
            => call.result = ScoreOne

\* C8 witness: such a search has returned the document with the score 1.0.
C8_Witness ==
    /\ Searched
    /\ call.result = ScoreOne
    /\ \E q \in AllTokens :
        /\ SingleDocumentCase(q)
        /\ Occurrences(TokenFindall(Lower(docs[1].content)), q) = 1
        /\ Count(Lower(docs[1].content), q) = 1

\* A call of make_snippet has returned.
SnippetReturned == call.op = "make_snippet" /\ call.returned

\* make_snippet cut its text: the page has content and the text is longer
\* than max_chars.
SnippetCut ==
    /\ SnippetReturned
    /\ call.page # NoPage
    /\ call.page.content # <<>>
    /\ Len(SnippetText(call.page, call.display_title)) > call.max_chars

\* The elements of a sequence.
Range(seq) == {seq[i] : i \in 1..Len(seq)}

\* s.endswith(p)
EndsWith(s, p) == Len(p) <= Len(s) /\ SubSeq(s, Len(s) - Len(p) + 1, Len(s)) = p

\* A call of make_snippet on a page with content has returned.
SnippetBuilt == SnippetReturned /\ call.page # NoPage /\ call.page.content # <<>>

\* C9, for a page with content: the string make_snippet returns is no longer
\* than max_chars, and it ends with the ellipsis marker whenever the text was
\* cut.  (For an absent or empty page the display title is returned as it is,
\* whatever its length.)
C9_SnippetWithinMaxChars ==
    SnippetBuilt =>
        /\ Len(call.result) <= call.max_chars
        /\ SnippetCut => EndsWith(call.result, Ellipsis)

\* C10: a text longer than max_chars is cut to its first max_chars - 1
\* characters, right-trimmed, and the ellipsis marker is appended; so with
\* max_chars = 10 and a cut that ends in no whitespace the result has exactly
\* 10 characters, the last of them the marker.
C10_CutToMaxChars ==
    SnippetCut =>
        LET text == SnippetText(call.page, call.display_title)
            kept == Slice(text, call.max_chars - 1)
        IN  /\ call.result = RStrip(kept) \o Ellipsis
            /\ (call.max_chars = 10 /\ RStrip(kept) = kept) =>
                    /\ Len(call.result) = 10
                    /\ EndsWith(call.result, Ellipsis)

\* The first non-empty line of the body of the call, stripped.
FirstLine == SnippetLines(call.page.content)[1]

\* A call of make_snippet has returned whose body starts with the display
\* title, up to case and whitespace.
TitleFirst ==
    /\ SnippetBuilt
    /\ SnippetLines(call.page.content) # <<>>
    /\ Lower(Normalize(FirstLine)) = Lower(Normalize(call.display_title))

\* The prose lines behind the first line of the body: the lines that are no
\* heading, bullet or numbered-list item.
ProseAfterFirst ==
    SelectSeq(Tail(SnippetLines(call.page.content)), LAMBDA l : ~IsSkippedLine(l))

\* The returned string without the marker of a cut.
Uncut == IF SnippetCut THEN Slice(call.result, Len(call.result) - 3) ELSE call.result

\* a and b agree on every position both have.
Agree(a, b) == \A i \in 1..Min({Len(a), Len(b)}) : a[i] = b[i]

\* C11 as stated: on a body whose first non-empty line is the display title,
\* up to case and whitespace, the returned string never starts with that line,
\* also when no other prose line remains.
C11_NeverStartsWithTitleLine ==
    TitleFirst => ~StartsWith(call.result, FirstLine)

\* C11, amended: the title line is dropped.  When a prose line remains, the
\* returned string is taken from the text that starts at the first remaining
\* prose line: it agrees with that line, whitespace collapsed, up to the cut,
\* and starts with it when nothing was cut.  When no prose line remains, the
\* returned string is the display title, whitespace collapsed, up to the cut.
C11_TitleLineDropped ==
    TitleFirst =>
        LET from == IF ProseAfterFirst # <<>>
                    THEN Normalize(ProseAfterFirst[1])
                    ELSE Normalize(call.display_title)
        IN  /\ Agree(Uncut, from)
            /\ ~SnippetCut =>
                   IF ProseAfterFirst # <<>> THEN StartsWith(call.result, from)
                   ELSE call.result = from

\* C11's case: a body that starts with its title and goes on with prose that
\* differs from the title, returned uncut.
C11_Witness ==
    /\ TitleFirst
    /\ ProseAfterFirst # <<>>
    /\ ~SnippetCut
    /\ ~Agree(Normalize(ProseAfterFirst[1]), Normalize(FirstLine))

\* A call of make_snippet has returned that had no page, or a page with no
\* content.
SnippetFallback ==
    SnippetReturned /\ (call.page = NoPage \/ call.page.content = <<>>)

\* C12: with no page, or a page whose content is empty, make_snippet returns
\* the display title character for character, whatever max_chars is.
C12_FallbackVerbatim == SnippetFallback => call.result = call.display_title

\* C12's case: no page, and a display title longer than max_chars whose
\* whitespace is not collapsed.
C12_Witness ==
    /\ SnippetFallback
    /\ call.page = NoPage
    /\ Len(call.display_title) > call.max_chars
    /\ Normalize(call.display_title) # call.display_title
    /\ call.result = call.display_title

\* The characters of the strings of the model.
Chars ==
    WordChars \cup {" ", NL, "\t", "#", "-", "*", ".", "[", "]", "(", ")", Backtick}

\* A call of make_snippet has returned whose body, not empty, holds no prose:
\* without its code fences and its leading heading or title line, every line
\* is a heading, a bullet or a numbered-list item.
NoProse ==
    /\ SnippetBuilt
    /\ \A l \in Range(DropTitleLine(SnippetLines(call.page.content),
                                    call.display_title)) : IsSkippedLine(l)

\* C13: make_snippet always returns a string, and on a body with no prose the
\* string is the display title: the title with its whitespace collapsed when
\* that fits max_chars, a cut of it otherwise (the fallback title goes through
\* the same collapse and cut as a paragraph).
C13_NoProseFallsBackToTitle ==
    /\ SnippetReturned => call.result \in Seq(Chars)
    /\ NoProse =>
           /\ Agree(Uncut, Normalize(call.display_title))
           /\ ~SnippetCut => call.result = Normalize(call.display_title)

\* C13's case: a body of a heading and a bullet, and a title that fits.
C13_Witness ==
    /\ NoProse
    /\ ~SnippetCut
    /\ Len(SnippetLines(call.page.content)) > 1
    /\ call.result = call.display_title

\* C14: no two documents of the index have the same uri.
C14_UniqueUris == NoRepeat([i \in 1..Len(docs) |-> docs[i].uri])

\* C15: the document last added is the last of the document list and its
\* ordinal, its position counted from 0, is in the postings of each of its
\* tokens; every ordinal of every postings list is below the number of
\* documents and names a document whose haystack holds the token; and every
\* document is named by the postings of each of its tokens under its position.
C15_SequentialOrdinals ==
    /\ call.op = "add" =>
           /\ docs # <<>>
           /\ docs[Len(docs)] = call.doc
           /\ \A tok \in TokenSet(call.doc) :
                  /\ tok \in DOMAIN doc_indices
                  /\ Len(docs) - 1 \in Range(doc_indices[tok])
    /\ \A tok \in DOMAIN doc_indices : \A j \in 1..Len(doc_indices[tok]) :
           /\ doc_indices[tok][j] \in 0..Len(docs) - 1
           /\ tok \in TokenSet(docs[doc_indices[tok][j] + 1])
    /\ \A i \in 0..Len(docs) - 1 : \A tok \in TokenSet(docs[i + 1]) :
           /\ tok \in DOMAIN doc_indices
           /\ i \in Range(doc_indices[tok])

\* C15's case: two documents added, the second with a token the first lacks
\* and a token the first has.
C15_Witness ==
    /\ call.op = "add"
    /\ Len(docs) = 2
    /\ \E tok \in DOMAIN doc_indices : Range(doc_indices[tok]) = {1}
    /\ \E tok \in DOMAIN doc_indices : Range(doc_indices[tok]) = {0, 1}

\* A token: a non-empty string of lower-case letters, digits and underscores.
IsToken(tok) ==
    /\ tok # <<>>
    /\ \A i \in 1..Len(tok) : tok[i] \in LowerChars \cup DigitChars \cup {"_"}

\* A text with no character of a token in it.
NoWordChar(s) == \A i \in 1..Len(s) : ~IsWordChar(s[i])

\* C16: every key of doc_indices and of doc_frequency and every query token
\* is a non-empty string of lower-case letters, digits and underscores, and a
\* text with no such character, the empty text among them, gives no token.
C16_TokensAreWords ==
    /\ \A tok \in DOMAIN doc_indices \cup DOMAIN doc_frequency : IsToken(tok)
    /\ call.op = "add" /\ NoWordChar(call.doc.content) /\ call.doc.index_title = <<>>
           => DOMAIN doc_indices = {} /\ DOMAIN doc_frequency = {}
    /\ Searched =>
           /\ \A tok \in Range(QueryTokens(call.query)) : IsToken(tok)
           /\ NoWordChar(call.query) =>
                  QueryTokens(call.query) = <<>> /\ call.result = <<>>

\* C16's case: a text of an upper-case letter, a separator and an underscore
\* is ingested and then searched for, which finds it under two tokens.
C16_Witness ==
    /\ Searched
    /\ call.query = <<"B", "-", "_">>
    /\ DOMAIN doc_indices = {<<"b">>, <<"_">>}
    /\ QueryTokens(call.query) = <<<<"b">>, <<"_">>>>
    /\ call.result # <<>>

\* search_agentcore_docs has searched: its results are ranked.
DocsSearched == run.pc \in {"hydrate", "done"}

\* search_agentcore_docs has returned.
DocsDone == run.pc = "done"

\* The URLs of the first n results of the search.
TopUrls(n) ==
    {docs[call.result[j].idx + 1].uri : j \in 1..Min({n, Len(call.result)})}

\* C17: in one search_agentcore_docs fetch_and_clean is called at most
\* SNIPPET_HYDRATE_MAX times, and only for documents among the first
\* SNIPPET_HYDRATE_MAX results.
C17_HydrationBounded ==
    DocsSearched =>
        /\ Len(run.fetched) <= SNIPPET_HYDRATE_MAX
        /\ Range(run.fetched) \subseteq TopUrls(SNIPPET_HYDRATE_MAX)

\* C17's case: more results than SNIPPET_HYDRATE_MAX, the page of each of the
\* first ones fetched, and a later result whose page was not.
C17_Witness ==
    /\ DocsDone
    /\ Len(call.result) > SNIPPET_HYDRATE_MAX
    /\ Len(run.fetched) = SNIPPET_HYDRATE_MAX
    /\ \E j \in 1..Len(call.result) :
           docs[call.result[j].idx + 1].uri \notin Range(run.fetched)

\* The document of the j-th result of the search.
ResultDoc(j) == docs[call.result[j].idx + 1]

\* No page is held for the URL: its fetch failed, or it was never fetched.
Unhydrated(uri) == Get(run.url_cache, uri, NoPage) = NoPage

\* The URLs whose fetch failed.
FailedUrls == {u \in Range(run.fetched) : Unhydrated(u)}

\* C18: search_agentcore_docs answers with one entry per result, in order,
\* with the result's URL and score, whatever the fetches returned; and the
\* snippet of a result with no page, because its fetch failed or it was not
\* fetched, is the display title of its document.
C18_FetchFailureKeepsResult ==
    DocsDone =>
        /\ Len(run.return_docs) = Len(call.result)
        /\ \A j \in 1..Len(call.result) :
               /\ run.return_docs[j].url = ResultDoc(j).uri
               /\ run.return_docs[j].score = Round3(call.result[j].score)
               /\ Unhydrated(ResultDoc(j).uri) =>
                      run.return_docs[j].snippet = ResultDoc(j).display_title

\* C18's case: a fetch failed, a fetch returned a page, and a result was not
\* fetched at all.
C18_Witness ==
    /\ DocsDone
    /\ FailedUrls # {}
    /\ \E u \in Range(run.fetched) : ~Unhydrated(u)
    /\ \E j \in 1..Len(call.result) : ResultDoc(j).uri \notin Range(run.fetched)
    /\ \E j \in 1..Len(call.result) :
           /\ ResultDoc(j).uri \in FailedUrls
           /\ run.return_docs[j].snippet = ResultDoc(j).display_title

\* The distance of x and y.
Dist(x, y) == IF x < y THEN y - x ELSE x - y

\* C19: search_agentcore_docs returns one dict per result of the search, in
\* the order of the results, each with the keys url, title, score and snippet
\* and no other, the score being the thousandth nearest to the result's
\* score; so the scores of the dicts never increase along the list.
C19_OneDictPerResult ==
    DocsDone =>
        /\ Len(run.return_docs) = Len(call.result)
        /\ \A j \in 1..Len(call.result) :
               /\ DOMAIN run.return_docs[j] = {"url", "title", "score", "snippet"}
               /\ run.return_docs[j].url = ResultDoc(j).uri
               /\ run.return_docs[j].title = ResultDoc(j).display_title
               /\ 2 * Dist(Scale * run.return_docs[j].score, 1000 * call.result[j].score)
                      <= Scale
        /\ \A j \in 1..Len(run.return_docs) - 1 :
               run.return_docs[j].score >= run.return_docs[j + 1].score

\* C19's case: several results of different scores, one of them a score that
\* rounding raises.
C19_Witness ==
    /\ DocsDone
    /\ Len(run.return_docs) > 1
    /\ run.return_docs[1].score > run.return_docs[Len(run.return_docs)].score
    /\ \E j \in 1..Len(call.result) :
           Scale * run.return_docs[j].score > 1000 * call.result[j].score

\* C20: a search leaves the documents, doc_frequency and doc_indices as they
\* are, and a search that follows a search of the same query and k returns the
\* same results.
C20_SearchIsPureRead ==
    [][call'.op = "search" =>
          /\ docs' = docs
          /\ doc_frequency' = doc_frequency
          /\ doc_indices' = doc_indices
          /\ (Searched /\ call'.query = call.query /\ call'.k = call.k) =>
                 call'.result = call.result]_vars

\* C20's case: an index of two documents was searched for a token it does not
\* hold, and holds no key for that token.
C20_Witness ==
    /\ Searched
    /\ Len(docs) = 2
    /\ call.query = <<"d">>
    /\ <<"d">> \notin DOMAIN doc_indices \cup DOMAIN doc_frequency
    /\ call.result = <<>>

\* C21: in search_agentcore_docs the documents of the index are those built
\* from the links, each with an empty body, before and after the pages are
\* fetched; doc_frequency and the ordinals of doc_indices are those of these
\* documents; the results are still what a search of the index returns; the
\* scores reported are these results' scores; and a page fetched shows in the
\* snippet only.
C21_HydrationLeavesIndex ==
    run.pc # "idle" =>
        /\ Len(docs) = run.next - 1
        /\ \A i \in 1..Len(docs) :
               docs[i] = LinkDoc(run.links[i]) /\ docs[i].content = <<>>
        /\ DOMAIN doc_indices = AllTokens /\ DOMAIN doc_frequency = AllTokens
        /\ \A tok \in AllTokens :
               /\ Range(doc_indices[tok]) = DocsWith(tok)
               /\ doc_frequency[tok] = Cardinality(DocsWith(tok))
        /\ DocsSearched =>
               /\ run.results = call.result
               /\ run.results = SearchResult(run.query, run.k)
        /\ DocsDone =>
               \A j \in 1..Len(run.return_docs) :
                   /\ run.return_docs[j].score = Round3(SearchResult(run.query, run.k)[j].score)
                   /\ ~Unhydrated(ResultDoc(j).uri) =>
                          run.return_docs[j].snippet
                              = make_snippet(run.url_cache[ResultDoc(j).uri],
                                             ResultDoc(j).display_title, DefaultMaxChars)

\* C21's case: the page of a result was fetched and gives the snippet, which
\* differs from the title, while the document indexed has no body.
C21_Witness ==
    /\ DocsDone
    /\ \E j \in 1..Len(run.return_docs) :
           /\ ~Unhydrated(ResultDoc(j).uri)
           /\ run.return_docs[j].snippet = <<"a", "b", " ", "c", "d", ".">>
           /\ run.return_docs[j].snippet # ResultDoc(j).display_title
           /\ ResultDoc(j).content = <<>>

\* C22: in the interactive image chat, once a /load has succeeded the next
\* user message sent carries the loaded image, whether or not the
\* conversation already holds messages, and the loaded image is given up only
\* by a message that carries it (or by the user's own /load or /clear).
C22_LoadedImageIsSent ==
    [][chat.loaded_image_path # None =>
           /\ (call'.op = "send_message" /\ call'.outcome # "missing")
                  => call'.image = chat.loaded_image_path
           /\ chat'.loaded_image_path # chat.loaded_image_path
                  => \/ call'.op = "send_message"
                           /\ call'.image = chat.loaded_image_path
                     \/ call'.op \in {"load_image", "clear"}]_vars

\* The lines make_snippet scans on the call made: the lines of the body
\* without a leading heading or title line.
BodyLines ==
    DropTitleLine(SnippetLines(call.page.content), call.display_title)

\* The position of the first prose line scanned, and of the last line of the
\* run of prose lines it starts.
FirstProse ==
    CHOOSE i \in 1..Len(BodyLines) :
        ~IsSkippedLine(BodyLines[i]) /\ \A h \in 1..(i - 1) : IsSkippedLine(BodyLines[h])

LastProse ==
    CHOOSE e \in FirstProse..Len(BodyLines) :
        /\ \A h \in FirstProse..e : ~IsSkippedLine(BodyLines[h])
        /\ e = Len(BodyLines) \/ IsSkippedLine(BodyLines[e + 1])

\* The prose lines from the first one to line j, joined with spaces.
ProseUpTo(j) == Join(SubSeq(BodyLines, FirstProse, j), <<" ">>)

\* What make_snippet returns for the text given.
Returned(text) == Truncate(Normalize(text), call.max_chars)

\* C23: on a body with a prose line, the heading, bullet and numbered-list
\* lines before the first prose line are passed over, and the first such line
\* after it ends the accumulation: the snippet is made of the first prose line
\* and of prose lines that follow it directly, and of no other line.
C23_ListLinesSkippedThenStop ==
    (SnippetBuilt /\ ~NoProse) =>
        \E j \in FirstProse..LastProse : call.result = Returned(ProseUpTo(j))

\* C23's case: a bullet, a prose line, a numbered-list item and a second prose
\* line; the snippet is the first prose line.
C23_Witness ==
    /\ SnippetBuilt
    /\ call.page.content = <<"-", " ", "x", NL, "a", "b", NL, "1", ".", " ", "y", NL, "c", "d">>
    /\ FirstProse = 2 /\ LastProse = 2
    /\ call.result = <<"a", "b">>

\* Whether the scan ends at prose line j: the buffer joined has the length of
\* a paragraph, or the line ends with a period.
StopsAt(j) ==
    \/ Len(ProseUpTo(j)) >= ParagraphChars
    \/ BodyLines[j][Len(BodyLines[j])] = "."

\* The last line of the snippet: the first prose line the scan ends at, else
\* the last line of the run.
StopLine ==
    LET stops == {j \in FirstProse..LastProse : StopsAt(j)}
    IN  IF stops = {} THEN LastProse ELSE Min(stops)

\* C24: the accumulation ends at the first prose line after which the joined
\* buffer has 120 characters or more, or which ends with a period; the lines
\* behind it add nothing, and with no such line the whole run is taken.
C24_StopsAtParagraphOrPeriod ==
    (SnippetBuilt /\ ~NoProse) => call.result = Returned(ProseUpTo(StopLine))

\* C24's case: two lines of 59 and 60 characters, 120 joined, and a third
\* line, which is left out.
C24_Witness ==
    /\ SnippetBuilt
    /\ call.page.content = BodyOfParagraph
    /\ call.max_chars = DefaultMaxChars
    /\ StopLine = 2 /\ LastProse = 3
    /\ ~StopsAt(1)
    /\ call.result = Rep("x", 59) \o <<" ">> \o Rep("y", 60)

\* The title boost a returned pair shows for the one token of the query: what
\* is left of the term frequency (the score by posting and by idf) without the
\* occurrences in the body, headers, code blocks and link text, by occurrence
\* in the index title.
ObservedBoost(r) ==
    LET doc   == docs[r.idx + 1]
        qt    == QueryTokens(call.query)[1]
        c     == Occurrences(Get(doc_indices, qt, <<>>), r.idx)
        tf    == r.score \div (c * Idf(qt))
        other == Count(Lower(doc.content), qt)
                   + SumCounts(HeaderFindall(doc.content), qt, HeaderWeight)
                   + SumCounts(CodeBlockFindall(doc.content), qt, CodeWeight)
                   + SumCounts(LinkTextFindall(doc.content), qt, LinkWeight)
    IN  (tf - other) \div Count(Lower(doc.index_title), qt)

\* The length of the body of the document of a returned pair.
BodyLen(r) == Len(docs[r.idx + 1].content)

\* C25: the boost of the index-title occurrences is 8 for an empty body, 5 for
\* a body of 1 to 799 characters and 3 for a body of 800 characters or more,
\* whatever the body and the title hold; a longer body never has a higher
\* boost.
C25_TitleBoostByBodyLength ==
    (Searched /\ Len(QueryTokens(call.query)) = 1) =>
        \A j \in 1..Len(call.result) :
            LET r == call.result[j]
            IN  Count(Lower(docs[r.idx + 1].index_title), QueryTokens(call.query)[1]) > 0 =>
                /\ ObservedBoost(r) = (IF BodyLen(r) = 0 THEN 8
                                       ELSE IF BodyLen(r) < 800 THEN 5 ELSE 3)
                /\ \A h \in 1..Len(call.result) :
                       BodyLen(call.result[h]) <= BodyLen(r)
                           => ObservedBoost(call.result[h]) >= ObservedBoost(r)

\* C25's case: a search returned a document with a body of 799 characters and
\* one with a body of 800 characters, with the boosts 5 and 3.
C25_Witness ==
    /\ Searched
    /\ \E j, h \in 1..Len(call.result) :
           /\ BodyLen(call.result[j]) = 799 /\ ObservedBoost(call.result[j]) = 5
           /\ BodyLen(call.result[h]) = 800 /\ ObservedBoost(call.result[h]) = 3

\* C26: after any sequence of adds doc_frequency and doc_indices have the same
\* keys, every frequency is at least 1 and at most the number of documents, so
\* that the argument of the logarithm, (N + 1) / (1 + frequency), is at least
\* 1 and the idf of every indexed token is at least 1.
C26_FrequencyBoundsIdf ==
    /\ DOMAIN doc_frequency = DOMAIN doc_indices
    /\ \A tok \in DOMAIN doc_indices :
           LET N == IF Len(docs) > 1 THEN Len(docs) ELSE 1
           IN  /\ 1 <= doc_frequency[tok]
               /\ doc_frequency[tok] <= Len(docs)
               /\ N + 1 >= 1 + doc_frequency[tok]
               /\ Idf(tok) >= Scale

\* C26's case: of two documents both hold one token, whose idf is exactly 1,
\* and one alone holds another, which recurs in it and whose idf is above 1.
C26_Witness ==
    /\ Len(docs) = 2
    /\ \E tok, other \in DOMAIN doc_indices :
           /\ doc_frequency[tok] = 2 /\ Idf(tok) = Scale
           /\ doc_frequency[other] = 1 /\ Len(doc_indices[other]) > 1
           /\ Idf(other) > Scale

\* C27: every pair search returns has a strictly positive score: a document
\* listed in the postings of a token holds the token in its lowercased index
\* title or body, so its weighted term frequency for the token is at least 1.
C27_ScoresPositive ==
    /\ \A tok \in DOMAIN doc_indices :
           \A j \in 1..Len(doc_indices[tok]) :
               LET doc == docs[doc_indices[tok][j] + 1]
               IN  /\ Count(Lower(doc.index_title), tok) + Count(Lower(doc.content), tok) >= 1
                   /\ _calculate_md_score(doc, tok) >= 1
    /\ Searched => \A j \in 1..Len(call.result) : call.result[j].score > 0

\* C27's case: a search returned a document with an empty body, which holds
\* the query token in its index title only.
C27_Witness ==
    /\ Searched
    /\ \E j \in 1..Len(call.result) :
           /\ docs[call.result[j].idx + 1].content = <<>>
           /\ call.result[j].score > 0

\* How often tok occurs as a token of the haystack of the document idx.
HaystackCount(idx, tok) == Occurrences(TokenFindall(Haystack(docs[idx + 1])), tok)

RECURSIVE ContributionSum(_, _, _)
\* Over the set toks of tokens: the sum of repetitions in the query, times
\* occurrences as a token of the haystack, times tf, times idf.
ContributionSum(toks, idx, q_tokens) ==
    IF toks = {} THEN 0
    ELSE LET t == CHOOSE x \in toks : TRUE
         IN  Occurrences(q_tokens, t) * HaystackCount(idx, t)
                 * _calculate_md_score(docs[idx + 1], t) * Idf(t)
             + ContributionSum(toks \ {t}, idx, q_tokens)

\* C28: postings[t] lists a document once per occurrence of t as a token of
\* its haystack, and the score of a returned document is the sum over the
\* distinct query tokens t of c * tf * idf, c being that number of
\* occurrences, taken once per repetition of t in the query.
C28_ContributionPerPosting ==
    /\ \A tok \in DOMAIN doc_indices : \A idx \in 0..(Len(docs) - 1) :
           Occurrences(doc_indices[tok], idx) = HaystackCount(idx, tok)
    /\ Searched =>
           \A j \in 1..Len(call.result) :
               call.result[j].score
                   = ContributionSum(Range(QueryTokens(call.query)),
                                     call.result[j].idx, QueryTokens(call.query))

\* C28's case: the query repeats a token that occurs twice as a token of the
\* document returned: its contribution is taken four times.
C28_Witness ==
    /\ Searched
    /\ \E j \in 1..Len(call.result), t \in Range(QueryTokens(call.query)) :
           /\ Range(QueryTokens(call.query)) = {t}
           /\ Occurrences(QueryTokens(call.query), t) = 2
           /\ HaystackCount(call.result[j].idx, t) = 2
           /\ call.result[j].score
                  = 4 * _calculate_md_score(docs[call.result[j].idx + 1], t) * Idf(t)

\* How often t occurs in the lowercased body of the document idx as a whole
\* token, and as a substring.
BodyTokens(idx, t) == Occurrences(TokenFindall(Lower(docs[idx + 1].content)), t)

BodySubstrings(idx, t) == Count(Lower(docs[idx + 1].content), t)

\* The term frequency of t in the document idx outside its body: the weighted
\* occurrences in the index title, headers, code blocks and link texts.
OutsideBody(idx, t) ==
    LET doc == docs[idx + 1]
    IN  Count(Lower(doc.index_title), t)
            * (IF doc.content = <<>> THEN _TITLE_BOOST_EMPTY
               ELSE IF Len(doc.content) < _SHORT_PAGE_THRESHOLD THEN _TITLE_BOOST_SHORT
               ELSE _TITLE_BOOST_LONG)
        + SumCounts(HeaderFindall(doc.content), t, HeaderWeight)
        + SumCounts(CodeBlockFindall(doc.content), t, CodeWeight)
        + SumCounts(LinkTextFindall(doc.content), t, LinkWeight)

\* C29: with k no smaller than the number of documents, search returns
\* exactly the documents one of whose haystack tokens equals a query token, so
\* a document that holds a query token inside a longer token only is not
\* returned; and the score of a returned document, for a query of one token,
\* counts every occurrence of the token in the body as a substring, those
\* inside longer tokens included.
C29_TokenMembershipSubstringScore ==
    Searched =>
        /\ call.k >= Len(docs) =>
               Range(ResultOrdinals(call.result))
                   = {i \in 0..(Len(docs) - 1) : Matches(i, call.query)}
        /\ Len(QueryTokens(call.query)) = 1 =>
               \A j \in 1..Len(call.result) :
                   LET idx == call.result[j].idx
                       t   == QueryTokens(call.query)[1]
                   IN  /\ BodySubstrings(idx, t) >= BodyTokens(idx, t)
                       /\ call.result[j].score
                              = HaystackCount(idx, t)
                                  * (BodySubstrings(idx, t) + OutsideBody(idx, t))
                                  * Idf(t)

\* C29's case: of two documents that hold the string of the query token, the
\* one that holds it inside a longer token only is not returned, and the one
\* returned holds it once as a token and once more inside a longer token,
\* which its score counts.
C29_Witness ==
    /\ Searched /\ Len(docs) = 2 /\ call.k >= 2
    /\ Len(QueryTokens(call.query)) = 1
    /\ Len(call.result) = 1
    /\ LET t     == QueryTokens(call.query)[1]
           idx   == call.result[1].idx
           other == 1 - idx
       IN  /\ BodySubstrings(other, t) > 0 /\ ~Matches(other, call.query)
           /\ BodyTokens(idx, t) = 1 /\ BodySubstrings(idx, t) = 2
           /\ call.result[1].score = 2 * Idf(t)

\* seq is non-decreasing.
NonDecreasing(seq) == \A i, j \in 1..Len(seq) : i <= j => seq[i] <= seq[j]

\* p is a prefix of seq.
IsPrefix(p, seq) == Len(p) <= Len(seq) /\ SubSeq(seq, 1, Len(p)) = p

\* C30: add is append-only.  A step that adds a document leaves the documents
\* added before as they are and in their order, keeps every postings list as a
\* prefix of the new one, every list non-decreasing in ordinal, and leaves
\* doc_frequency and doc_indices as they are for every token that is no token
\* of the haystack of the new document.
C30_AddAppendOnly ==
    [][docs' # docs =>
           /\ docs' = Append(docs, docs'[Len(docs')])
           /\ \A tok \in DOMAIN doc_indices :
                  /\ tok \in DOMAIN doc_indices'
                  /\ IsPrefix(doc_indices[tok], doc_indices'[tok])
           /\ \A tok \in DOMAIN doc_indices' : NonDecreasing(doc_indices'[tok])
           /\ \A tok \in DOMAIN doc_frequency :
                  tok \in DOMAIN doc_frequency' /\ doc_frequency'[tok] >= doc_frequency[tok]
           /\ \A tok \in (DOMAIN doc_indices' \cup DOMAIN doc_frequency')
                          \ TokenSet(docs'[Len(docs')]) :
                  /\ tok \in DOMAIN doc_indices /\ doc_indices'[tok] = doc_indices[tok]
                  /\ tok \in DOMAIN doc_frequency
                  /\ doc_frequency'[tok] = doc_frequency[tok]]_vars

\* C30's case: a second document has been added; the postings of a token it
\* does not hold still list the first document alone, and the postings of a
\* token both hold list the first and then the second.
C30_Witness ==
    /\ call.op = "add" /\ Len(docs) = 2
    /\ \E tok, other \in DOMAIN doc_indices :
           /\ tok \notin TokenSet(docs[2])
           /\ doc_indices[tok] = <<0>> /\ doc_frequency[tok] = 1
           /\ other \in TokenSet(docs[1]) \cap TokenSet(docs[2])
           /\ doc_indices[other][1] = 0
           /\ doc_indices[other][Len(doc_indices[other])] = 1

====
